---- MODULE Spec2Model ----
(***************************************************************************)
(* Model of src/datasets/features/audio.py: the Audio feature.             *)
(*                                                                         *)
(* State: one Audio instance (`self`, with its lazily created              *)
(* `_resampler` attribute), the set of importable libraries (`caps`), and  *)
(* the caller's view of one call at a time: __call__, decode_example or    *)
(* decode_batch (whose for-loop advances one item per step).               *)
(*                                                                         *)
(* Audio data is abstract: a file is [data, rate, chans]; a decoded array  *)
(* records which file it came from, its channel count and layout, and the  *)
(* sequence of library operations the code applied to it.                  *)
(***************************************************************************)
EXTENDS Integers, Sequences, FiniteSets, TLC

VARIABLES self, caps, pc, op, values, i, decoded_batch, value, out, outs,
          result, error, schema

vars == <<self, caps, pc, op, values, i, decoded_batch, value, out, outs,
          result, error, schema>>

----------------------------------------------------------------------------
(* Bounds *)

\* longest input sequence handed to decode_batch
MaxBatch == 2
\* target sampling rates range over 1..MaxRate (abstract rate units)
MaxRate == 2

----------------------------------------------------------------------------
(* Values of the program *)

\* Optional[int] = None for sampling_rate and id; `if self.sampling_rate`
\* is also false for 0, so None and 0 take the same branches.
None == 0

\* hasattr(self, "_resampler") is false
NoResampler == [src |-> 0, dst |-> 0]

Libraries == {"librosa", "soundfile", "torchaudio", "sox"}

\* paths are strings, modelled as sequences of characters
a_mp3 == <<"a", ".", "m", "p", "3">>
b_mp3 == <<"b", ".", "m", "p", "3">>
a_MP3 == <<"a", ".", "M", "P", "3">>
a_mp3_wav == <<"a", ".", "m", "p", "3", ".", "w", "a", "v">>
dot_mp3 == <<".", "m", "p", "3">>

Paths == {a_mp3, b_mp3, a_MP3, a_mp3_wav}

\* the audio stored under each path: native rate and channel count
FileAt(path) ==
    CASE path = a_mp3     -> [data |-> path, rate |-> 2, chans |-> 2]
      [] path = b_mp3     -> [data |-> path, rate |-> 3, chans |-> 2]
      [] path = a_MP3     -> [data |-> path, rate |-> 2, chans |-> 1]
      [] path = a_mp3_wav -> [data |-> path, rate |-> 3, chans |-> 2]

NoBytes == [data |-> <<>>, rate |-> 0, chans |-> 0]

\* the two shapes a caller can pass as `value`
Str(path) == [tag |-> "str", path |-> path, bytes |-> NoBytes]
Dict(path) == [tag |-> "dict", path |-> path, bytes |-> FileAt(path)]

Values == {Str(p) : p \in Paths} \cup {Dict(p) : p \in Paths}

NoValue == [tag |-> "", path |-> <<>>, bytes |-> NoBytes]

NoError == [type |-> "", install |-> ""]
ImportError(lib) == [type |-> "ImportError", install |-> lib]
TypeError == [type |-> "TypeError", install |-> ""]
AttributeError == [type |-> "AttributeError", install |-> ""]

NoArray == [src |-> <<>>, chans |-> 0, layout |-> "", ops |-> <<>>]
NoRet == [path |-> <<>>, array |-> NoArray, sampling_rate |-> 0]

\* one library operation applied to an array: `chans` is the channel count
\* of the array it ran on, from/to are rates (0 when not a rate conversion)
Step(name, chans, from, to) ==
    [op |-> name, chans |-> chans, from |-> from, to |-> to]

----------------------------------------------------------------------------
(* Pure helpers *)

\* mutant of EndsWith: `suffix in s` instead of s.endswith(suffix)
EndsWithContains(s, suffix) ==
    \E k \in 1..Len(s) :
        /\ k + Len(suffix) - 1 <= Len(s)
        /\ SubSeq(s, k, k + Len(suffix) - 1) = suffix

\* str.endswith
EndsWith(s, suffix) ==
    /\ Len(s) >= Len(suffix)
    /\ SubSeq(s, Len(s) - Len(suffix) + 1, Len(s)) = suffix

\* mutant of ResampleNeeded: the comparison with the native rate is dropped
ResampleWheneverTarget(obj, sampling_rate) ==
    /\ obj.sampling_rate # None
    /\ obj.sampling_rate # 0

\* `self.sampling_rate and self.sampling_rate != sampling_rate`
ResampleNeeded(obj, sampling_rate) ==
    /\ obj.sampling_rate # None
    /\ obj.sampling_rate # 0
    /\ obj.sampling_rate # sampling_rate

\* value["path"] on a str raises TypeError (string indices must be integers)
Subscriptable(v) == v.tag = "dict"

\* mutant of HasEndswith: a record is taken for a path
HasEndswithAnyShape(v) == TRUE

\* path.endswith exists only on a str; on a dict it raises AttributeError
HasEndswith(v) == v.tag = "str"

\* mutant of Call: the condition on archived is inverted
CallInverted(obj) ==
    IF obj.archived
    THEN [type |-> "string", fields |-> {}]
    ELSE [type |-> "struct",
          fields |-> {<<"path", "string">>, <<"bytes", "binary">>}]

\* Audio.__call__: the pyarrow storage type
Call(obj) ==
    IF ~obj.archived
    THEN [type |-> "string", fields |-> {}]
    ELSE [type |-> "struct",
          fields |-> {<<"path", "string">>, <<"bytes", "binary">>}]

----------------------------------------------------------------------------
(* The three decode backends.  Each returns                                *)
(* [ok, array, sampling_rate, err, resampler]: the (array, sampling_rate)  *)
(* pair or the exception raised, and the instance's _resampler afterwards. *)

Raise(err, resampler) ==
    [ok |-> FALSE, array |-> NoArray, sampling_rate |-> 0, err |-> err,
     resampler |-> resampler]

Return(array, sampling_rate, resampler) ==
    [ok |-> TRUE, array |-> array, sampling_rate |-> sampling_rate,
     err |-> NoError, resampler |-> resampler]

\* librosa.load(f, sr=self.sampling_rate, mono=self.mono): the library
\* downmixes and resamples internally; sr=None keeps the native rate
_decode_example_with_librosa(obj, libs, file) ==
    IF "librosa" \notin libs
    THEN Raise(ImportError("librosa"), obj._resampler)
    ELSE LET sampling_rate == IF obj.sampling_rate # None
                              THEN obj.sampling_rate ELSE file.rate
             array == [src |-> file.data,
                       chans |-> IF obj.mono THEN 1 ELSE file.chans,
                       layout |-> "channel-major",
                       ops |-> <<Step("librosa.load", file.chans, file.rate,
                                      sampling_rate)>>]
         IN  Return(array, sampling_rate, obj._resampler)

_decode_example_with_soundfile(obj, libs, file) ==
    IF "librosa" \notin libs \/ "soundfile" \notin libs
    THEN Raise(ImportError("librosa"), obj._resampler)
    ELSE LET a0 == [src |-> file.data, chans |-> file.chans,
                    layout |-> "channel-last",
                    ops |-> <<Step("sf.read", file.chans, 0, 0)>>]
             a1 == [a0 EXCEPT !.layout = "channel-major",
                              !.ops = Append(@, Step("T", a0.chans, 0, 0))]
             a2 == IF obj.mono
                   THEN [a1 EXCEPT !.chans = 1,
                                   !.ops = Append(@, Step("to_mono", a1.chans, 0, 0))]
                   ELSE a1
         IN  IF ResampleNeeded(obj, file.rate)
             THEN Return([a2 EXCEPT !.ops = Append(@, Step("resample", a2.chans,
                                                 file.rate, obj.sampling_rate))],
                         obj.sampling_rate, obj._resampler)
             ELSE Return(a2, file.rate, obj._resampler)

\* mutant of _decode_example_with_torchaudio: the channel mean is taken
\* before the resampler is applied
_decode_example_with_torchaudio_mono_first(obj, libs, file) ==
    IF "torchaudio" \notin libs
    THEN Raise(ImportError("torchaudio"), obj._resampler)
    ELSE IF "sox" \notin libs
    THEN Raise(ImportError("sox"), obj._resampler)
    ELSE LET a0 == [src |-> file.data, chans |-> file.chans,
                    layout |-> "channel-major",
                    ops |-> <<Step("torchaudio.load", file.chans, 0, 0)>>]
             a1 == IF obj.mono
                   THEN [a0 EXCEPT !.chans = 1,
                                   !.ops = Append(@, Step("mean", a0.chans, 0, 0))]
                   ELSE a0
             need == ResampleNeeded(obj, file.rate)
             resampler == IF need /\ obj._resampler = NoResampler
                          THEN [src |-> file.rate, dst |-> obj.sampling_rate]
                          ELSE obj._resampler
             a2 == IF need
                   THEN [a1 EXCEPT !.ops = Append(@, Step("resample", a1.chans,
                                            resampler.src, resampler.dst))]
                   ELSE a1
             sampling_rate == IF need THEN obj.sampling_rate ELSE file.rate
             a3 == [a2 EXCEPT !.ops = Append(@, Step("numpy", a2.chans, 0, 0))]
         IN  Return(a3, sampling_rate, resampler)

_decode_example_with_torchaudio(obj, libs, file) ==
    IF "torchaudio" \notin libs
    THEN Raise(ImportError("torchaudio"), obj._resampler)
    ELSE IF "sox" \notin libs
    THEN Raise(ImportError("sox"), obj._resampler)
    ELSE LET a0 == [src |-> file.data, chans |-> file.chans,
                    layout |-> "channel-major",
                    ops |-> <<Step("torchaudio.load", file.chans, 0, 0)>>]
             need == ResampleNeeded(obj, file.rate)
             resampler == IF need /\ obj._resampler = NoResampler
                          THEN [src |-> file.rate, dst |-> obj.sampling_rate]
                          ELSE obj._resampler
             a1 == IF need
                   THEN [a0 EXCEPT !.ops = Append(@, Step("resample", a0.chans,
                                            resampler.src, resampler.dst))]
                   ELSE a0
             sampling_rate == IF need THEN obj.sampling_rate ELSE file.rate
             a2 == [a1 EXCEPT !.ops = Append(@, Step("numpy", a1.chans, 0, 0))]
             a3 == IF obj.mono
                   THEN [a2 EXCEPT !.chans = 1,
                                   !.ops = Append(@, Step("mean", a2.chans, 0, 0))]
                   ELSE a2
         IN  Return(a3, sampling_rate, resampler)

----------------------------------------------------------------------------
(* decode_example: [ok, ret, err, invoked, resampler].  `invoked` lists    *)
(* the backend methods the call entered.                                   *)

Outcome(path, backend, r) ==
    [ok |-> r.ok,
     ret |-> IF r.ok
             THEN [path |-> path, array |-> r.array,
                   sampling_rate |-> r.sampling_rate]
             ELSE NoRet,
     err |-> r.err, invoked |-> <<backend>>, resampler |-> r.resampler]

Fails(err, obj) ==
    [ok |-> FALSE, ret |-> NoRet, err |-> err, invoked |-> <<>>,
     resampler |-> obj._resampler]

decode_example(obj, libs, v) ==
    IF obj.archived
    THEN IF ~Subscriptable(v)
         THEN Fails(TypeError, obj)
         ELSE IF EndsWith(v.path, dot_mp3)
              THEN Outcome(v.path, "torchaudio",
                           _decode_example_with_torchaudio(obj, libs, v.bytes))
              ELSE Outcome(v.path, "soundfile",
                           _decode_example_with_soundfile(obj, libs, v.bytes))
    ELSE IF ~HasEndswith(v)
         THEN Fails(AttributeError, obj)
         ELSE IF EndsWith(v.path, dot_mp3)
              THEN Outcome(v.path, "torchaudio",
                           _decode_example_with_torchaudio(obj, libs, FileAt(v.path)))
              ELSE Outcome(v.path, "librosa",
                           _decode_example_with_librosa(obj, libs, FileAt(v.path)))

NoOut == [ok |-> FALSE, ret |-> NoRet, err |-> NoError, invoked |-> <<>>]

\* what the caller of decode_example observes
Observed(o) == [ok |-> o.ok, ret |-> o.ret, err |-> o.err, invoked |-> o.invoked]

----------------------------------------------------------------------------
(* decode_batch's accumulator *)

Keys == {"path", "array", "sampling_rate"}

\* defaultdict(list)
EmptyBatch == [k \in {} |-> <<>>]

\* mutant of AppendExample: values are inserted at the front
PrependExample(db, ret) ==
    [k \in (DOMAIN db) \cup Keys |->
        IF k \in DOMAIN db THEN <<ret[k]>> \o db[k] ELSE <<ret[k]>>]

\* for k, v in decoded_example.items(): decoded_batch[k].append(v)
AppendExample(db, ret) ==
    [k \in (DOMAIN db) \cup Keys |->
        IF k \in DOMAIN db THEN Append(db[k], ret[k]) ELSE <<ret[k]>>]

NoResult == [returned |-> FALSE, dict |-> EmptyBatch]
NoSchema == [type |-> "", fields |-> {}]

----------------------------------------------------------------------------
(* The state machine *)

Configs ==
    [sampling_rate : {None} \cup (1..MaxRate), mono : BOOLEAN,
     archived : BOOLEAN, id : {None, 1}, _resampler : {NoResampler}]

BatchInputs == UNION {[1..n -> Values] : n \in 0..MaxBatch}

Idle ==
    /\ pc = "idle"
    /\ op = "none"
    /\ values = <<>>
    /\ i = 0
    /\ decoded_batch = EmptyBatch
    /\ value = NoValue
    /\ out = NoOut
    /\ outs = <<>>
    /\ result = NoResult
    /\ error = NoError
    /\ schema = NoSchema

Init ==
    /\ self \in Configs
    /\ caps \in SUBSET Libraries
    /\ Idle

\* a caller evaluates feature()
CallSchema ==
    /\ pc = "idle"
    /\ schema' = Call(self)
    /\ op' = "__call__"
    /\ pc' = "returned"
    /\ UNCHANGED <<self, caps, values, i, decoded_batch, value, out, outs,
                   result, error>>

\* a caller evaluates feature.decode_example(v)
CallDecodeExample ==
    /\ pc = "idle"
    /\ \E v \in Values :
         LET o == decode_example(self, caps, v) IN
           /\ value' = v
           /\ out' = Observed(o)
           /\ outs' = <<Observed(o)>>
           /\ self' = [self EXCEPT !._resampler = o.resampler]
           /\ error' = o.err
           /\ pc' = IF o.ok THEN "returned" ELSE "raised"
    /\ op' = "decode_example"
    /\ UNCHANGED <<caps, values, i, decoded_batch, result, schema>>

\* a caller evaluates feature.decode_batch(vs): the accumulator is created
CallDecodeBatch ==
    /\ pc = "idle"
    /\ \E vs \in BatchInputs : values' = vs
    /\ i' = 1
    /\ decoded_batch' = EmptyBatch
    /\ op' = "decode_batch"
    /\ pc' = "loop"
    /\ UNCHANGED <<self, caps, value, out, outs, result, error, schema>>

\* mutant of DecodeBatchStep: a failing item is skipped and the loop goes on
DecodeBatchStepSkipFailed ==
    /\ pc = "loop"
    /\ i <= Len(values)
    /\ LET o == decode_example(self, caps, values[i]) IN
         /\ value' = values[i]
         /\ out' = Observed(o)
         /\ outs' = Append(outs, Observed(o))
         /\ self' = [self EXCEPT !._resampler = o.resampler]
         /\ decoded_batch' = IF o.ok THEN AppendExample(decoded_batch, o.ret)
                             ELSE decoded_batch
         /\ i' = i + 1
    /\ UNCHANGED <<caps, op, values, result, schema, pc, error>>

\* one iteration of `for value in values`
DecodeBatchStep ==
    /\ pc = "loop"
    /\ i <= Len(values)
    /\ LET o == decode_example(self, caps, values[i]) IN
         /\ value' = values[i]
         /\ out' = Observed(o)
         /\ outs' = Append(outs, Observed(o))
         /\ self' = [self EXCEPT !._resampler = o.resampler]
         /\ IF o.ok
            THEN /\ decoded_batch' = AppendExample(decoded_batch, o.ret)
                 /\ i' = i + 1
                 /\ UNCHANGED <<pc, error>>
            ELSE /\ error' = o.err
                 /\ pc' = "raised"
                 /\ UNCHANGED <<decoded_batch, i>>
    /\ UNCHANGED <<caps, op, values, result, schema>>

\* return dict(decoded_batch)
DecodeBatchReturn ==
    /\ pc = "loop"
    /\ i > Len(values)
    /\ result' = [returned |-> TRUE, dict |-> decoded_batch]
    /\ pc' = "returned"
    /\ UNCHANGED <<self, caps, op, values, i, decoded_batch, value, out, outs,
                   error, schema>>

\* the caller is done with the call's outcome; the instance (and its
\* _resampler attribute) lives on for the next call
Release ==
    /\ pc \in {"returned", "raised"}
    /\ pc' = "idle"
    /\ op' = "none"
    /\ values' = <<>>
    /\ i' = 0
    /\ decoded_batch' = EmptyBatch
    /\ value' = NoValue
    /\ out' = NoOut
    /\ outs' = <<>>
    /\ result' = NoResult
    /\ error' = NoError
    /\ schema' = NoSchema
    /\ UNCHANGED <<self, caps>>

Next ==
    \/ CallSchema
    \/ CallDecodeExample
    \/ CallDecodeBatch
    \/ DecodeBatchStep
    \/ DecodeBatchReturn
    \/ Release

Spec == Init /\ [][Next]_vars

----------------------------------------------------------------------------
(* Properties *)

\* decode_example has been entered at least once in the current call
Decoded == Len(outs) > 0

\* the shape of `value` is the one the archived flag calls for
WellShaped == value.tag = (IF self.archived THEN "dict" ELSE "str")

BatchReturned == op = "decode_batch" /\ pc = "returned"

Ops == out.ret.array.ops
ResampleSteps == {k \in DOMAIN Ops : Ops[k].op = "resample"}
MonoSteps == {k \in DOMAIN Ops : Ops[k].op \in {"to_mono", "mean"}}

\* C1: for a reference of the shape the archived flag calls for,
\* decode_example enters exactly one backend: torchaudio iff the path ends
\* in ".mp3" (a.mp3, b.mp3), else soundfile when archived and librosa when
\* not; "a.MP3" and "a.mp3.wav" go to the default backend.
C1_Routing ==
    (Decoded /\ WellShaped) =>
        out.invoked =
            <<IF value.path \in {a_mp3, b_mp3} THEN "torchaudio"
              ELSE IF self.archived THEN "soundfile" ELSE "librosa">>

C1_Witness ==
    /\ Decoded
    /\ self.archived
    /\ value = Dict(a_mp3_wav)
    /\ out.invoked = <<"soundfile">>

\* C2: a successful decode_example returns sampling_rate = the target when
\* one is set and the file's native rate otherwise; the dispatcher applies
\* a resample step only when the target is set and differs from the native
\* rate, and with target = native rate no rate conversion happens at all.
C2_SamplingRate ==
    (Decoded /\ out.ok) =>
        LET native == FileAt(value.path).rate
            target == self.sampling_rate
        IN  /\ out.ret.sampling_rate = (IF target # None THEN target ELSE native)
            /\ ResampleSteps # {} => (target # None /\ target # native)
            /\ target = native => \A k \in DOMAIN Ops : Ops[k].from = Ops[k].to

C2_Witness ==
    /\ Decoded
    /\ out.ok
    /\ out.invoked = <<"torchaudio">>
    /\ self.sampling_rate = FileAt(value.path).rate
    /\ ResampleSteps = {}
    /\ out.ret.sampling_rate = self.sampling_rate

\* C3: a returned batch holds, for every index j and every field, the field
\* of what decode_example returned for the j-th input, in input order, and
\* path[j] is the j-th input's path; repeated inputs give repeated entries.
C3_BatchOrder ==
    BatchReturned =>
        \A j \in 1..Len(values) : \A k \in Keys :
            /\ k \in DOMAIN result.dict
            /\ Len(result.dict[k]) = Len(values)
            /\ result.dict[k][j] = outs[j].ret[k]
            /\ result.dict["path"][j] = values[j].path
            /\ result.dict["array"][j].src = values[j].path

C3_Witness ==
    /\ BatchReturned
    /\ Len(values) = 2
    /\ values[1] = values[2]
    /\ result.dict["path"] = <<values[1].path, values[1].path>>

\* C4: every returned batch, the one for the empty input included, has
\* exactly the keys path, array and sampling_rate, each mapped to a
\* sequence as long as the input.
C4_ThreeKeys ==
    BatchReturned =>
        /\ DOMAIN result.dict = Keys
        /\ \A k \in Keys : Len(result.dict[k]) = Len(values)

\* C5: once decode_example has failed on an item of a batch, the batch call
\* has raised that same error, the failing item is the last one decoded,
\* every earlier item had succeeded, and nothing has been returned.
C5_FailFast ==
    (op = "decode_batch" /\ \E j \in DOMAIN outs : ~outs[j].ok) =>
        /\ pc = "raised"
        /\ i \in 1..Len(values)
        /\ Len(outs) = i
        /\ ~outs[i].ok
        /\ \A j \in 1..(i - 1) : outs[j].ok
        /\ error = outs[i].err
        /\ result = NoResult

C5_Witness ==
    /\ op = "decode_batch"
    /\ pc = "raised"
    /\ Len(values) = 2
    /\ i = 1
    /\ decode_example(self, caps, values[2]).ok

Required(backend) ==
    CASE backend = "librosa" -> {"librosa"}
      [] backend = "soundfile" -> {"soundfile", "librosa"}
      [] backend = "torchaudio" -> {"torchaudio", "sox"}

\* C7: an unavailability error comes from the one backend that was
\* selected and names a library that backend needs and that is absent.
C7_NamesMissingCapability ==
    (Decoded /\ out.err.type = "ImportError") =>
        /\ Len(out.invoked) = 1
        /\ out.err.install \in Required(out.invoked[1]) \ caps

\* C8: __call__ returns the string type when archived is false and the
\* {path: string, bytes: binary} struct when it is true, whatever
\* sampling_rate, mono, id and the instance's decode history are.
C8_Schema ==
    (op = "__call__" /\ pc = "returned") =>
        schema = (IF self.archived
                  THEN [type |-> "struct",
                        fields |-> {<<"path", "string">>, <<"bytes", "binary">>}]
                  ELSE [type |-> "string", fields |-> {}])

C8_Witness ==
    /\ op = "__call__"
    /\ pc = "returned"
    /\ self.archived
    /\ self._resampler # NoResampler
    /\ schema.type = "struct"

\* C9: every decode_example call returns what a freshly constructed
\* instance with the same configuration would return.
C9_CacheInvisible ==
    Decoded =>
        out = Observed(decode_example([self EXCEPT !._resampler = NoResampler],
                                      caps, value))

\* C10 (as stated): whenever the dispatcher itself both resamples and
\* downmixes, the resample step comes first and runs on the signal with
\* the file's channels.
C10_MonoAfterResample ==
    (Decoded /\ out.ok) =>
        \A r \in ResampleSteps : \A m \in MonoSteps :
            /\ r < m
            /\ Ops[r].chans = FileAt(value.path).chans

\* C10 (amended): when the dispatcher itself both resamples and downmixes,
\* the torchaudio backend resamples the multi-channel signal and then
\* downmixes, and the soundfile backend downmixes first and resamples the
\* mono signal.
C10_MonoOrderPerBackend ==
    (Decoded /\ out.ok) =>
        \A r \in ResampleSteps : \A m \in MonoSteps :
            /\ out.invoked = <<"torchaudio">> =>
                   (r < m /\ Ops[r].chans = FileAt(value.path).chans)
            /\ out.invoked = <<"soundfile">> =>
                   (m < r /\ Ops[r].chans = 1)

Both(o) ==
    /\ o.ok
    /\ \E k \in DOMAIN o.ret.array.ops : o.ret.array.ops[k].op = "resample"
    /\ \E k \in DOMAIN o.ret.array.ops :
           o.ret.array.ops[k].op \in {"to_mono", "mean"}

C10_Witness ==
    /\ BatchReturned
    /\ Len(outs) = 2
    /\ outs[1].invoked = <<"torchaudio">>
    /\ outs[2].invoked = <<"soundfile">>
    /\ Both(outs[1])
    /\ Both(outs[2])
    /\ FileAt(values[1].path).chans = 2

====
